---- MODULE Spec2Model ----
(***************************************************************************)
(* reflux: a TransferManager keeping file-transfer records, caller         *)
(* attributes and one ServerInfo in two sync.Map registries written        *)
(* through to a BoltDB file (the lock file).  The model follows            *)
(* reflux.go, files.go, additionals.go and serverinfo.go: each exported    *)
(* method is one action per atomic step (a bolt transaction, a sync.Map    *)
(* call), a process crash loses memory and keeps the file.                 *)
(***************************************************************************)
EXTENDS Integers, FiniteSets, Sequences, TLC

\* ------------------------------------------------------------- bounds
\* Number of caller goroutines.
NThreads == 2
\* time.Now() returns an instant in 1..MaxTime (0 is the zero time.Time).
MaxTime == 1

Threads == 1..NThreads

\* ------------------------------------------------- constants of the code
StatusNotStarted == 0
StatusInProgress == 1
StatusCompleted == 2
StatusFailed == 3
Statuses == {StatusNotStarted, StatusInProgress, StatusCompleted, StatusFailed}

filesBucket == "Files"
serverBucket == "Server"
additionalDataBucket == "AdditionalData"
serverInfoKey == "Info"

\* ------------------------------------------------------------- inputs
\* Source paths callers use as keys; "" is the key bolt rejects.
FileKeys == {"", "a", "b"}
ByteCounts == {0, 7}
\* An error value handed to UpdateStatus/SetError: nil or errors.New(msg).
NilErr == [isNil |-> TRUE, msg |-> ""]
Errs == {NilErr, [isNil |-> FALSE, msg |-> "e1"]}
Times == 1..MaxTime

FileFields == {"SourcePath", "TargetPath", "Status", "BytesTransferred",
               "TimeStart", "TimeEnd", "ErrorMsg"}

\* The zero value of a field of FileMetadata.
ZeroOf(f) == IF f \in {"SourcePath", "TargetPath", "ErrorMsg"} THEN "" ELSE 0

\* FileMetadata{} (the value Load returns with false).
ZeroMetadata == [f \in FileFields |-> ZeroOf(f)]

\* The records callers pass to Files.StoreOrUpdate.
NewMetadata(k, st) ==
    [SourcePath |-> k, TargetPath |-> "t", Status |-> st, BytesTransferred |-> 0,
     TimeStart |-> 0, TimeEnd |-> 0, ErrorMsg |-> ""]
InputMetadata == {NewMetadata(k, st) : k \in FileKeys, st \in {StatusNotStarted, StatusCompleted}}

\* Attribute keys and payloads (any): nil, a concrete string, or a pointer to
\* an interface value holding a string.
AttrKeys == {"", "k"}
NilPayload == [kind |-> "nil", v |-> ""]
Payloads == {NilPayload, [kind |-> "string", v |-> "x"], [kind |-> "ptrany", v |-> "x"]}

ServerInfos == {[Address |-> "localhost", Port |-> 8080, User |-> "admin"],
                [Address |-> "localhost", Port |-> 70000, User |-> "admin"],
                [Address |-> "localhost", Port |-> 8080, User |-> ""]}
NoServerInfo == [Address |-> "<nil>", Port |-> 0, User |-> ""]

\* ------------------------------------------------------ maps (sync.Map, buckets)
EmptyMap == [x \in {} |-> 0]
\* A map write that replaces the whole map by the one entry.
Put_only(m, k, v) == [x \in {k} |-> v]
Put(m, k, v) == [x \in (DOMAIN m) \cup {k} |-> IF x = k THEN v ELSE m[x]]
Del(m, k) == [x \in (DOMAIN m) \ {k} |-> m[x]]

\* ------------------------------------------------------------- gob
\* gob.Encoder.Encode of a FileMetadata: a struct is sent as its non-zero
\* fields only.
EncodeMetadata(metadata) ==
    [f \in {g \in FileFields : metadata[g] # ZeroOf(g)} |-> metadata[f]]

\* gob.Decoder.Decode into a fresh FileMetadata: fields not sent stay zero.
DecodeMetadata(v) ==
    [f \in FileFields |-> IF f \in DOMAIN v THEN v[f] ELSE ZeroOf(f)]

\* enc.Encode(data) of an any: the dynamic value is sent under its concrete
\* wire type; only a pointer to an interface is sent as an interface value;
\* nil cannot be encoded.
EncodeAnyOk(data) == data.kind # "nil"
EncodeAny(data) ==
    IF data.kind = "ptrany"
    THEN [wire |-> "interface", concrete |-> "string", v |-> data.v]
    ELSE [wire |-> data.kind, concrete |-> data.kind, v |-> data.v]

\* dec.Decode(&data) with data of type any: a local interface type can only
\* be decoded from a remote interface type.
DecodeAnyOk(v) == v.wire = "interface"
DecodeAny(v) == [kind |-> v.concrete, v |-> v.v]

\* gob of a ServerInfo (struct: non-zero fields only).
ServerFields == {"Address", "Port", "User"}
ZeroOfServer(f) == IF f = "Port" THEN 0 ELSE ""
EncodeServerInfo(info) ==
    [f \in {g \in ServerFields : info[g] # ZeroOfServer(g)} |-> info[f]]
DecodeServerInfo(v) ==
    [f \in ServerFields |-> IF f \in DOMAIN v THEN v[f] ELSE ZeroOfServer(f)]

\* ------------------------------------------------------------- state
VARIABLES
    lockFile,     \* the lock file ./.<program>.lock exists
    dbFiles,      \* bucket Files of the file: key -> gob bytes
    dbAttrs,      \* bucket AdditionalData
    dbServer,     \* bucket Server
    handle,       \* this process holds the bolt file lock (an open *bolt.DB)
    tm,           \* "none" | "ready" | "closed" | "failed" (constructor returned an error)
    preexisting,  \* tm.preexisting
    memFiles,     \* fileMetadataMap.m
    memAttrs,     \* attributes.m
    serverInfo,   \* tm.serverInfo (NoServerInfo for nil)
    pc,           \* per goroutine: "idle" or the step it is about to take
    frame,        \* per goroutine: the call it is in, with its locals
    ret,          \* per goroutine: the call that returned last, with its error
    stored,       \* history: per key the last FileMetadata a returned call stored
    storedAttrs,  \* history: the same for attributes
    deleted,      \* history: file keys whose Delete returned nil, with no StoreOrUpdate
                  \* begun and no registry constructed since
    clean,        \* history: no call was cut by a crash since the last construction
    finished      \* history: Finish returned nil and no constructor has run since

vars == <<lockFile, dbFiles, dbAttrs, dbServer, handle, tm, preexisting,
          memFiles, memAttrs, serverInfo, pc, frame, ret,
          stored, storedAttrs, deleted, clean, finished>>

disk == <<lockFile, dbFiles, dbAttrs, dbServer>>
hist == <<stored, storedAttrs, deleted, clean, finished>>

NoCall == [op |-> "none", reg |-> "", key |-> ""]
NoFrame == [call |-> NoCall]
NoRet == [call |-> NoCall, err |-> ""]

AllIdle == \A t \in Threads : pc[t] = "idle"

Init ==
    /\ lockFile = FALSE
    /\ dbFiles = EmptyMap
    /\ dbAttrs = EmptyMap
    /\ dbServer = EmptyMap
    /\ handle = FALSE
    /\ tm = "none"
    /\ preexisting = FALSE
    /\ memFiles = EmptyMap
    /\ memAttrs = EmptyMap
    /\ serverInfo = NoServerInfo
    /\ pc = [t \in Threads |-> "idle"]
    /\ frame = [t \in Threads |-> NoFrame]
    /\ ret = [t \in Threads |-> NoRet]
    /\ stored = EmptyMap
    /\ storedAttrs = EmptyMap
    /\ deleted = {}
    /\ clean = TRUE
    /\ finished = FALSE

\* ------------------------------------------------------------- bolt
\* db.Update / db.View on a closed DB return ErrDatabaseNotOpen.
dbOpen == tm = "ready"

\* Bucket.Put rejects an empty key.
PutErr(k) == IF k = "" THEN "ErrKeyRequired" ELSE ""

\* Outcome of the I/O of one transaction commit or file sync.
IOs == {"ok", "io"}

\* The goroutine's call returns err.
Return(t, call, err) ==
    /\ pc' = [pc EXCEPT ![t] = "idle"]
    /\ frame' = [frame EXCEPT ![t] = NoFrame]
    /\ ret' = [ret EXCEPT ![t] = [call |-> call, err |-> err]]

\* The goroutine is inside a call: the result of its previous call is gone.
Goto(t, label, f) ==
    /\ pc' = [pc EXCEPT ![t] = label]
    /\ frame' = [frame EXCEPT ![t] = f]
    /\ ret' = [ret EXCEPT ![t] = NoRet]

Callable(t) == pc[t] = "idle" /\ tm \in {"ready", "closed"}

\* ------------------------------------------------------------- recovery
\* fileMetadataMap.loadAll: every entry of the bucket, decoded, under its key.
LoadAllFiles == [k \in DOMAIN dbFiles |-> DecodeMetadata(dbFiles[k])]

\* attributes.loadAll: fails on the first entry that does not decode.
LoadAllAttrsOk == \A k \in DOMAIN dbAttrs : DecodeAnyOk(dbAttrs[k])
LoadAllAttrs == [k \in DOMAIN dbAttrs |-> DecodeAny(dbAttrs[k])]

\* Faulty variant: a recovery that leaves tm.serverInfo nil.
LoadServerInfo_none == NoServerInfo

\* TransferManager.loadServerInfo: the entry under "Info", if any.
LoadServerInfo ==
    IF serverInfoKey \in DOMAIN dbServer
    THEN DecodeServerInfo(dbServer[serverInfoKey])
    ELSE NoServerInfo

\* The call record of a constructor run; had: it follows a Finish.
NewCall == [op |-> "NewTransferManager", reg |-> "", key |-> "", had |-> finished]

\* The constructor returned (nil, err): no manager, no registries.
ConstructFailed(t, why) ==
    /\ tm' = "failed"
    /\ memFiles' = EmptyMap
    /\ memAttrs' = EmptyMap
    /\ serverInfo' = NoServerInfo
    /\ Return(t, NewCall, why)
    /\ UNCHANGED <<dbFiles, dbAttrs, dbServer, stored, storedAttrs, deleted, clean>>

\* What loadExistingData returns: the attributes that do not decode, or the
\* db.Sync that ends it.
LoadExistingDataErr(io) ==
    IF ~LoadAllAttrsOk THEN "decode" ELSE IF io = "sync" THEN "io" ELSE ""

\* NewTransferManager: stat the lock file, bolt.Open it, create the buckets,
\* load the existing data when the file was there, arm the signal handler.
\* The handle is not closed on the error paths after bolt.Open.
NewTransferManager(t) ==
    /\ AllIdle
    /\ tm # "ready"
    /\ ~handle
    /\ preexisting' = lockFile
    /\ finished' = FALSE
    /\ \E io \in {"ok", "open", "init", "sync"} :
         IF io = "open"
         THEN /\ ConstructFailed(t, "io")
              /\ UNCHANGED <<lockFile, handle>>
         ELSE /\ lockFile' = TRUE
              /\ handle' = TRUE
              /\ IF io = "init"
                 THEN ConstructFailed(t, "io")
                 ELSE IF lockFile /\ LoadExistingDataErr(io) # ""
                 THEN ConstructFailed(t, LoadExistingDataErr(io))
                 ELSE /\ tm' = "ready"
                      /\ memFiles' = (IF lockFile THEN LoadAllFiles ELSE EmptyMap)
                      /\ memAttrs' = (IF lockFile THEN LoadAllAttrs ELSE EmptyMap)
                      /\ serverInfo' = (IF lockFile THEN LoadServerInfo ELSE NoServerInfo)
                      /\ stored' = memFiles'
                      /\ storedAttrs' = memAttrs'
                      /\ deleted' = {}
                      /\ clean' = TRUE
                      /\ Return(t, NewCall, "")
                      /\ UNCHANGED <<dbFiles, dbAttrs, dbServer>>

\* Faulty variant: a Close that reports nil on a DB that is closed already.
CloseErr_again(io) ==
    IF dbOpen /\ io = "io" THEN "failed to sync database" ELSE ""

\* TransferManager.Close: db.Sync, then db.Close.  On a closed DB the sync
\* fails and the error is returned.
CloseErr(io) ==
    IF ~dbOpen \/ io = "io" THEN "failed to sync database" ELSE ""

Close(t) ==
    /\ Callable(t)
    /\ \E io \in IOs :
         /\ tm' = (IF CloseErr(io) = "" THEN "closed" ELSE tm)
         /\ handle' = (IF CloseErr(io) = "" THEN FALSE ELSE handle)
         /\ Return(t, [op |-> "Close", reg |-> "", key |-> ""], CloseErr(io))
    /\ UNCHANGED <<disk, preexisting, memFiles, memAttrs, serverInfo, hist>>

\* Faulty variant: Finish closes and returns nil without os.Remove.
Finish_keep(t) ==
    /\ Callable(t)
    /\ \E io \in IOs :
         LET call == [op |-> "Finish", reg |-> "", key |-> ""] IN
         IF CloseErr(io) # ""
         THEN /\ Return(t, call, CloseErr(io))
              /\ UNCHANGED <<tm, handle, finished>>
         ELSE /\ tm' = "closed"
              /\ handle' = FALSE
              /\ finished' = TRUE
              /\ Return(t, call, "")
    /\ UNCHANGED <<disk, preexisting, memFiles, memAttrs, serverInfo,
                   stored, storedAttrs, deleted, clean>>

\* Faulty variant: Finish removes the lock file although Close failed.
Finish_anyway(t) ==
    /\ Callable(t)
    /\ \E io \in IOs :
         LET call == [op |-> "Finish", reg |-> "", key |-> ""] IN
         /\ lockFile' = FALSE
         /\ dbFiles' = EmptyMap
         /\ dbAttrs' = EmptyMap
         /\ dbServer' = EmptyMap
         /\ stored' = EmptyMap
         /\ storedAttrs' = EmptyMap
         /\ deleted' = {}
         /\ IF CloseErr(io) # ""
            THEN /\ Return(t, call, CloseErr(io))
                 /\ UNCHANGED <<tm, handle, finished>>
            ELSE /\ tm' = "closed"
                 /\ handle' = FALSE
                 /\ finished' = TRUE
                 /\ Return(t, call, "")
    /\ UNCHANGED <<preexisting, memFiles, memAttrs, serverInfo, clean>>

\* TransferManager.Finish: Close, then os.Remove of the lock file.
Finish(t) ==
    /\ Callable(t)
    /\ \E io \in IOs, rm \in IOs :
         LET call == [op |-> "Finish", reg |-> "", key |-> ""] IN
         IF CloseErr(io) # ""
         THEN /\ Return(t, call, CloseErr(io))
              /\ UNCHANGED <<disk, tm, handle, hist>>
         ELSE /\ tm' = "closed"
              /\ handle' = FALSE
              /\ IF rm = "io"
                 THEN /\ Return(t, call, "failed to remove lock file")
                      /\ UNCHANGED <<disk, hist>>
                 ELSE /\ lockFile' = FALSE
                      /\ dbFiles' = EmptyMap
                      /\ dbAttrs' = EmptyMap
                      /\ dbServer' = EmptyMap
                      /\ stored' = EmptyMap
                      /\ storedAttrs' = EmptyMap
                      /\ deleted' = {}
                      /\ finished' = TRUE
                      /\ UNCHANGED clean
                      /\ Return(t, call, "")
    /\ UNCHANGED <<preexisting, memFiles, memAttrs, serverInfo>>

\* The process dies (crash, kill, or exit without Finish): memory and the
\* file lock are gone, the file stays as the last committed transaction left it.
Crash ==
    /\ tm # "none"
    /\ tm' = "none"
    /\ handle' = FALSE
    /\ preexisting' = FALSE
    /\ memFiles' = EmptyMap
    /\ memAttrs' = EmptyMap
    /\ serverInfo' = NoServerInfo
    /\ pc' = [t \in Threads |-> "idle"]
    /\ frame' = [t \in Threads |-> NoFrame]
    /\ ret' = [t \in Threads |-> NoRet]
    /\ clean' = (clean /\ AllIdle)
    /\ UNCHANGED <<disk, stored, storedAttrs, deleted, finished>>


\* ------------------------------------------------------------- Files registry
\* Faulty variant: a Load that reports a zero record for an absent key.
Files_Load_always(sourcePath) ==
    IF sourcePath \in DOMAIN memFiles
    THEN <<memFiles[sourcePath], TRUE>>
    ELSE <<ZeroMetadata, TRUE>>

\* fileMetadataMap.Load
Files_Load(sourcePath) ==
    IF sourcePath \in DOMAIN memFiles
    THEN <<memFiles[sourcePath], TRUE>>
    ELSE <<ZeroMetadata, FALSE>>

\* An UpdateStatus that stamps the end time of completed transfers only.
UpdatedMetadata_noend(meta, status, bytesTransferred, err, now) ==
    [meta EXCEPT
       !.Status = status,
       !.BytesTransferred = bytesTransferred,
       !.ErrorMsg = IF err.isNil THEN @ ELSE err.msg,
       !.TimeStart = IF status = StatusInProgress THEN now ELSE @,
       !.TimeEnd = IF status = StatusCompleted THEN now ELSE @]

\* The record UpdateStatus builds from the loaded one.
UpdatedMetadata(meta, status, bytesTransferred, err, now) ==
    [meta EXCEPT
       !.Status = status,
       !.BytesTransferred = bytesTransferred,
       !.ErrorMsg = IF err.isNil THEN @ ELSE err.msg,
       !.TimeStart = IF status = StatusInProgress THEN now ELSE @,
       !.TimeEnd = IF status \in {StatusCompleted, StatusFailed} THEN now ELSE @]

\* What the db.Update of Files.StoreOrUpdate returns.
UpdateErr(metadata, io) ==
    IF ~dbOpen THEN "ErrDatabaseNotOpen"
    ELSE IF PutErr(metadata.SourcePath) # "" THEN PutErr(metadata.SourcePath)
    ELSE IF io = "io" THEN "io"
    ELSE ""

\* Files.StoreOrUpdate is entered with its argument.
Files_StoreOrUpdate(t, metadata) ==
    /\ Callable(t)
    /\ Goto(t, "update",
            [call |-> [op |-> "StoreOrUpdate", reg |-> "Files", key |-> metadata.SourcePath,
                      val |-> metadata],
             metadata |-> metadata])
    /\ deleted' = deleted \ {metadata.SourcePath}
    /\ UNCHANGED <<disk, handle, tm, preexisting, memFiles, memAttrs, serverInfo,
                   stored, storedAttrs, clean, finished>>

\* UpdateStatus: Load the record, fail when absent, set the fields, and
\* enter StoreOrUpdate with the result.
UpdateStatus(t, op, sourcePath, status, bytesTransferred, err) ==
    LET call == [op |-> op, reg |-> "Files", key |-> sourcePath, status |-> status,
                 n |-> bytesTransferred, e |-> err]
    IN
    /\ Callable(t)
    /\ IF ~Files_Load(sourcePath)[2]
       THEN /\ Return(t, call, "not found in map")
            /\ UNCHANGED deleted
       ELSE /\ deleted' = deleted \ {sourcePath}
            /\ \E now \in Times :
                 Goto(t, "update",
                      [call |-> call,
                       metadata |-> UpdatedMetadata(Files_Load(sourcePath)[1], status,
                                                    bytesTransferred, err, now)])
    /\ UNCHANGED <<disk, handle, tm, preexisting, memFiles, memAttrs, serverInfo,
                   stored, storedAttrs, clean, finished>>

Files_UpdateStatus(t, sourcePath, status, bytesTransferred, err) ==
    UpdateStatus(t, "UpdateStatus", sourcePath, status, bytesTransferred, err)

Files_Start(t, sourcePath) ==
    UpdateStatus(t, "Start", sourcePath, StatusInProgress, 0, NilErr)

Files_SetError(t, sourcePath, err) ==
    UpdateStatus(t, "SetError", sourcePath, StatusFailed, 0, err)

Files_SetSuccess(t, sourcePath, bytesTransferred) ==
    UpdateStatus(t, "SetSuccess", sourcePath, StatusCompleted, bytesTransferred, NilErr)

\* Faulty variant: the record is put in the map before the transaction, whatever
\* the transaction returns.
StoreOrUpdate_Update_early(t) ==
    /\ pc[t] = "update"
    /\ memFiles' = Put(memFiles, frame[t].metadata.SourcePath, frame[t].metadata)
    /\ \E io \in IOs :
         LET metadata == frame[t].metadata
             err == UpdateErr(metadata, io)
         IN IF err # ""
            THEN /\ Return(t, frame[t].call, err)
                 /\ UNCHANGED dbFiles
            ELSE /\ dbFiles' = Put(dbFiles, metadata.SourcePath, EncodeMetadata(metadata))
                 /\ Goto(t, "store", frame[t])
    /\ UNCHANGED <<lockFile, dbAttrs, dbServer, handle, tm, preexisting,
                   memAttrs, serverInfo, hist>>

\* The db.Update of StoreOrUpdate: one write transaction putting the encoded
\* record under its SourcePath; on an error the call returns it.
StoreOrUpdate_Update(t) ==
    /\ pc[t] = "update"
    /\ \E io \in IOs :
         LET metadata == frame[t].metadata
             err == UpdateErr(metadata, io)
         IN IF err # ""
            THEN /\ Return(t, frame[t].call, err)
                 /\ UNCHANGED dbFiles
            ELSE /\ dbFiles' = Put(dbFiles, metadata.SourcePath, EncodeMetadata(metadata))
                 /\ Goto(t, "store", frame[t])
    /\ UNCHANGED <<lockFile, dbAttrs, dbServer, handle, tm, preexisting,
                   memFiles, memAttrs, serverInfo, hist>>

\* Faulty variant: StoreOrUpdate returns nil without fmm.m.Store.
StoreOrUpdate_Store_lost(t) ==
    /\ pc[t] = "store"
    /\ stored' = Put(stored, frame[t].metadata.SourcePath, frame[t].metadata)
    /\ Return(t, frame[t].call, "")
    /\ UNCHANGED <<disk, handle, tm, preexisting, memFiles, memAttrs, serverInfo,
                   storedAttrs, deleted, clean, finished>>

\* After the transaction: fmm.m.Store(metadata.SourcePath, metadata), return nil.
StoreOrUpdate_Store(t) ==
    /\ pc[t] = "store"
    /\ memFiles' = Put(memFiles, frame[t].metadata.SourcePath, frame[t].metadata)
    /\ stored' = Put(stored, frame[t].metadata.SourcePath, frame[t].metadata)
    /\ Return(t, frame[t].call, "")
    /\ UNCHANGED <<disk, handle, tm, preexisting, memAttrs, serverInfo,
                   storedAttrs, deleted, clean, finished>>

\* What the db.Update of Delete returns.
DeleteErr(io) ==
    IF ~dbOpen THEN "ErrDatabaseNotOpen" ELSE IF io = "io" THEN "io" ELSE ""

\* Files.Delete: the db.Update deleting the key from the bucket.
Files_Delete(t, sourcePath) ==
    LET call == [op |-> "Delete", reg |-> "Files", key |-> sourcePath, had |-> FALSE] IN
    /\ Callable(t)
    /\ \E io \in IOs :
         IF DeleteErr(io) # ""
         THEN /\ Return(t, call, DeleteErr(io))
              /\ UNCHANGED dbFiles
         ELSE /\ dbFiles' = Del(dbFiles, sourcePath)
              /\ Goto(t, "delete", [call |-> call])
    /\ UNCHANGED <<lockFile, dbAttrs, dbServer, handle, tm, preexisting,
                   memFiles, memAttrs, serverInfo,
                   stored, storedAttrs, deleted, clean, finished>>

\* Faulty variant: Delete returns nil without fmm.m.Delete.
Files_Delete_m_kept(t) ==
    LET key == frame[t].call.key IN
    /\ pc[t] = "delete"
    /\ stored' = Del(stored, key)
    /\ deleted' = IF key \in DOMAIN memFiles THEN deleted \cup {key} ELSE deleted
    /\ Return(t, [frame[t].call EXCEPT !.had = key \in DOMAIN memFiles], "")
    /\ UNCHANGED <<disk, handle, tm, preexisting, memFiles, memAttrs, serverInfo,
                   storedAttrs, clean, finished>>

\* After the transaction: fmm.m.Delete(sourcePath), return nil.  (deleted
\* records the keys whose record this call removed.)
Files_Delete_m(t) ==
    LET key == frame[t].call.key IN
    /\ pc[t] = "delete"
    /\ memFiles' = Del(memFiles, key)
    /\ stored' = Del(stored, key)
    /\ deleted' = IF key \in DOMAIN memFiles THEN deleted \cup {key} ELSE deleted
    /\ Return(t, [frame[t].call EXCEPT !.had = key \in DOMAIN memFiles], "")
    /\ UNCHANGED <<disk, handle, tm, preexisting, memAttrs, serverInfo,
                   storedAttrs, clean, finished>>

\* ------------------------------------------------------------- Attributes registry
\* attributes.Load
Attributes_Load(key) ==
    IF key \in DOMAIN memAttrs
    THEN <<memAttrs[key], TRUE>>
    ELSE <<NilPayload, FALSE>>

\* attributes.Exists
Attributes_Exists(key) == Attributes_Load(key)[2]

\* Attributes.StoreOrUpdate: the payload is encoded before the transaction;
\* an encoding error is returned at once.
Attributes_StoreOrUpdate(t, key, data) ==
    LET call == [op |-> "StoreOrUpdate", reg |-> "Attributes", key |-> key, val |-> data] IN
    /\ Callable(t)
    /\ IF ~EncodeAnyOk(data)
       THEN /\ Return(t, call, "gob: cannot encode nil value")
       ELSE /\ Goto(t, "att_update", [call |-> call, data |-> data])
    /\ UNCHANGED <<disk, handle, tm, preexisting, memFiles, memAttrs, serverInfo,
                   stored, storedAttrs, deleted, clean, finished>>

\* What the db.Update of Attributes.StoreOrUpdate returns.
AttUpdateErr(key, io) ==
    IF ~dbOpen THEN "ErrDatabaseNotOpen"
    ELSE IF PutErr(key) # "" THEN PutErr(key)
    ELSE IF io = "io" THEN "io"
    ELSE ""

\* The db.Update of Attributes.StoreOrUpdate.
Attributes_Update(t) ==
    /\ pc[t] = "att_update"
    /\ \E io \in IOs :
         IF AttUpdateErr(frame[t].call.key, io) # ""
         THEN /\ Return(t, frame[t].call, AttUpdateErr(frame[t].call.key, io))
              /\ UNCHANGED dbAttrs
         ELSE /\ dbAttrs' = Put(dbAttrs, frame[t].call.key, EncodeAny(frame[t].data))
              /\ Goto(t, "att_store", frame[t])
    /\ UNCHANGED <<lockFile, dbFiles, dbServer, handle, tm, preexisting,
                   memFiles, memAttrs, serverInfo, hist>>

\* Faulty variant: Attributes.StoreOrUpdate returns nil without at.m.Store.
Attributes_Store_lost(t) ==
    /\ pc[t] = "att_store"
    /\ storedAttrs' = Put(storedAttrs, frame[t].call.key, frame[t].data)
    /\ Return(t, frame[t].call, "")
    /\ UNCHANGED <<disk, handle, tm, preexisting, memFiles, memAttrs, serverInfo,
                   stored, deleted, clean, finished>>

\* After the transaction: at.m.Store(key, data), return nil.
Attributes_Store(t) ==
    /\ pc[t] = "att_store"
    /\ memAttrs' = Put(memAttrs, frame[t].call.key, frame[t].data)
    /\ storedAttrs' = Put(storedAttrs, frame[t].call.key, frame[t].data)
    /\ Return(t, frame[t].call, "")
    /\ UNCHANGED <<disk, handle, tm, preexisting, memFiles, serverInfo,
                   stored, deleted, clean, finished>>

\* Attributes.Delete: the db.Update deleting the key from the bucket.
Attributes_Delete(t, key) ==
    LET call == [op |-> "Delete", reg |-> "Attributes", key |-> key, had |-> FALSE] IN
    /\ Callable(t)
    /\ \E io \in IOs :
         IF DeleteErr(io) # ""
         THEN /\ Return(t, call, DeleteErr(io))
              /\ UNCHANGED dbAttrs
         ELSE /\ dbAttrs' = Del(dbAttrs, key)
              /\ Goto(t, "att_delete", [call |-> call])
    /\ UNCHANGED <<lockFile, dbFiles, dbServer, handle, tm, preexisting,
                   memFiles, memAttrs, serverInfo,
                   stored, storedAttrs, deleted, clean, finished>>

\* After the transaction: at.m.Delete(key), return nil.
Attributes_Delete_m(t) ==
    LET key == frame[t].call.key IN
    /\ pc[t] = "att_delete"
    /\ memAttrs' = Del(memAttrs, key)
    /\ storedAttrs' = Del(storedAttrs, key)
    /\ Return(t, [frame[t].call EXCEPT !.had = key \in DOMAIN memAttrs], "")
    /\ UNCHANGED <<disk, handle, tm, preexisting, memFiles, serverInfo,
                   stored, deleted, clean, finished>>

\* ------------------------------------------------------------- ServerInfo
\* Faulty variant: a validate that accepts an empty user.
validate_nouser(info) ==
    IF info.Address # "localhost" THEN "invalid address format"
    ELSE IF info.Port < 0 \/ info.Port > 65535 THEN "invalid port"
    ELSE ""

\* ServerInfo.validate: the address parses and resolves, the port is in
\* 0..65535, the user is not empty.
validate(info) ==
    IF info.Address # "localhost" THEN "invalid address format"
    ELSE IF info.Port < 0 \/ info.Port > 65535 THEN "invalid port"
    ELSE IF info.User = "" THEN "empty user"
    ELSE ""

\* TransferManager.GetServerInfo
GetServerInfo ==
    IF serverInfo = NoServerInfo
    THEN <<NoServerInfo, "ErrServerInfoNotSet">>
    ELSE <<serverInfo, "">>

\* What StoreOrUpdateServerInfo returns before it sets tm.serverInfo.
ServerUpdateErr(info, io) ==
    IF validate(info) # "" THEN validate(info)
    ELSE IF ~dbOpen THEN "ErrDatabaseNotOpen"
    ELSE IF io = "io" THEN "io"
    ELSE ""

\* StoreOrUpdateServerInfo: validate, then the db.Update putting the encoded
\* info under "Info".
StoreOrUpdateServerInfo(t, info) ==
    LET call == [op |-> "StoreOrUpdateServerInfo", reg |-> "Server", key |-> serverInfoKey,
                 val |-> info] IN
    /\ Callable(t)
    /\ \E io \in IOs :
         IF ServerUpdateErr(info, io) # ""
         THEN /\ Return(t, call, ServerUpdateErr(info, io))
              /\ UNCHANGED dbServer
         ELSE /\ dbServer' = Put(dbServer, serverInfoKey, EncodeServerInfo(info))
              /\ Goto(t, "server_set", [call |-> call, info |-> info])
    /\ UNCHANGED <<lockFile, dbFiles, dbAttrs, handle, tm, preexisting,
                   memFiles, memAttrs, serverInfo, hist>>

\* Faulty variant: the call returns nil without setting tm.serverInfo.
StoreOrUpdateServerInfo_set_lost(t) ==
    /\ pc[t] = "server_set"
    /\ Return(t, frame[t].call, "")
    /\ UNCHANGED <<disk, handle, tm, preexisting, memFiles, memAttrs, serverInfo, hist>>

\* After the transaction: tm.serverInfo = info, return nil.
StoreOrUpdateServerInfo_set(t) ==
    /\ pc[t] = "server_set"
    /\ serverInfo' = frame[t].info
    /\ Return(t, frame[t].call, "")
    /\ UNCHANGED <<disk, handle, tm, preexisting, memFiles, memAttrs, hist>>

\* ------------------------------------------------------------- GetSlice, sync, Operate
\* A slice built by appending inside m.Range: one element per entry visited,
\* kept as the number of times each value occurs; its order is not modelled.
NilSlice == [isNil |-> TRUE, elems |-> EmptyMap]
SliceOf(m) ==
    [isNil |-> DOMAIN m = {},
     elems |-> [r \in {m[k] : k \in DOMAIN m} |->
                   Cardinality({k \in DOMAIN m : m[k] = r})]]

RECURSIVE SumOver(_, _)
SumOver(f, S) ==
    IF S = {} THEN 0
    ELSE LET x == CHOOSE y \in S : TRUE IN f[x] + SumOver(f, S \ {x})

\* len(slice)
Len_(slice) == SumOver(slice.elems, DOMAIN slice.elems)

\* fileMetadataMap.GetSlice: the values of the map; an error when there is none.
Files_GetSlice(t) ==
    /\ Callable(t)
    /\ IF DOMAIN memFiles = {}
       THEN Return(t, [op |-> "GetSlice", reg |-> "Files", key |-> "", out |-> NilSlice],
                   "no files found")
       ELSE Return(t, [op |-> "GetSlice", reg |-> "Files", key |-> "",
                       out |-> SliceOf(memFiles)], "")
    /\ UNCHANGED <<disk, handle, tm, preexisting, memFiles, memAttrs, serverInfo, hist>>

\* attributes.GetSlice: the values of the map (a nil slice when there is
\* none), and always a nil error.
Attributes_GetSlice(t) ==
    /\ Callable(t)
    /\ Return(t, [op |-> "GetSlice", reg |-> "Attributes", key |-> "",
                  out |-> SliceOf(memAttrs)], "")
    /\ UNCHANGED <<disk, handle, tm, preexisting, memFiles, memAttrs, serverInfo, hist>>

\* What transfer(sourcePath, targetPath) may return: (n, err).
TransferResults == {[n |-> 100, e |-> NilErr], [n |-> 5, e |-> [isNil |-> FALSE, msg |-> "e1"]]}

\* The result of an Operate call: the status of every record when the call
\* began, the keys the Range visited, the calls of transfer in order (key, n, err),
\* whether fmm.sync was begun, the error a syncFile of that sweep returned
\* ("" for nil), the slice returned.
OperateCall(f, out) ==
    [op |-> "Operate", reg |-> "Files", key |-> "", snap |-> f.snap,
     visited |-> f.visited, calls |-> f.calls, synced |-> f.synced,
     sync_err |-> f.sync_err, out |-> out]

\* Faulty variant: an error of UpdateStatus returned with the records so far.
OperateFailure_slice(f) == OperateCall(f, SliceOf(memFiles))

\* return nil, errGeneral
OperateFailure(f) == OperateCall(f, NilSlice)

\* Faulty variant: the byte count of transfer is not passed on.
OperateBytes_zero(r) == 0

\* The byte count Operate passes to UpdateStatus after transfer returned r.
OperateBytes(r) == r.n

\* Faulty variant: the callback returns false after a failed transfer.
AfterRecord_stop(f) ==
    IF f.calls[Len(f.calls)].e.isNil THEN "op_range" ELSE "sync_range"

\* The callback returns true after the second UpdateStatus returned nil: the
\* Range goes on.
AfterRecord(f) == "op_range"

\* Operate begins: fmm.m.Range over the map.
Files_Operate(t) ==
    /\ Callable(t)
    /\ Goto(t, "op_range",
            [call |-> [op |-> "Operate", reg |-> "Files", key |-> ""],
             snap |-> [k \in DOMAIN memFiles |-> memFiles[k].Status], visited |-> {}, key |-> "",
             metadata |-> ZeroMetadata, calls |-> <<>>, synced |-> FALSE,
             sync_visited |-> {}, sync_err |-> ""])
    /\ UNCHANGED <<disk, handle, tm, preexisting, memFiles, memAttrs, serverInfo, hist>>

\* Range hands the callback an entry it has not visited (an entry stored
\* since the Range began may or may not be visited), or ends; after the
\* Range with errGeneral nil, fmm.sync() begins.
Operate_Range(t) ==
    /\ pc[t] = "op_range"
    /\ \/ \E k \in DOMAIN memFiles \ frame[t].visited :
            Goto(t, "op_start",
                 [frame[t] EXCEPT !.key = k, !.visited = @ \cup {k}])
       \/ /\ (DOMAIN frame[t].snap \cap DOMAIN memFiles) \subseteq frame[t].visited
          /\ Goto(t, "sync_range", [frame[t] EXCEPT !.synced = TRUE, !.key = ""])
    /\ UNCHANGED <<disk, handle, tm, preexisting, memFiles, memAttrs, serverInfo, hist>>

\* The Load of an UpdateStatus made by Operate: InProgress before the
\* transfer, Completed or Failed with what transfer returned after it.  A
\* key that is gone ends Operate with the error and a nil slice.
Operate_UpdateStatus(t) ==
    /\ pc[t] \in {"op_start", "op_end"}
    /\ LET k == frame[t].key
           r == frame[t].calls[Len(frame[t].calls)]
       IN IF ~Files_Load(k)[2]
          THEN /\ Return(t, OperateFailure(frame[t]), "not found in map")
               /\ UNCHANGED deleted
          ELSE /\ deleted' = deleted \ {k}
               /\ \E now \in Times :
                    Goto(t, IF pc[t] = "op_start" THEN "op_start_tx" ELSE "op_end_tx",
                         [frame[t] EXCEPT !.metadata =
                            IF pc[t] = "op_start"
                            THEN UpdatedMetadata(Files_Load(k)[1], StatusInProgress, 0,
                                                 NilErr, now)
                            ELSE IF r.e.isNil
                            THEN UpdatedMetadata(Files_Load(k)[1], StatusCompleted,
                                                 OperateBytes(r), NilErr, now)
                            ELSE UpdatedMetadata(Files_Load(k)[1], StatusFailed,
                                                 OperateBytes(r), r.e, now)])
    /\ UNCHANGED <<disk, handle, tm, preexisting, memFiles, memAttrs, serverInfo,
                   stored, storedAttrs, clean, finished>>

\* Faulty variant: the InProgress record is not committed before the transfer
\* (only the map gets it); the terminal record is committed as in the code.
Operate_Update_late(t) ==
    /\ pc[t] \in {"op_start_tx", "op_end_tx"}
    /\ \E io \in IOs :
         LET metadata == frame[t].metadata
             err == UpdateErr(metadata, io)
         IN IF err # ""
            THEN /\ Return(t, OperateFailure(frame[t]), err)
                 /\ UNCHANGED dbFiles
            ELSE /\ dbFiles' = IF pc[t] = "op_start_tx" THEN dbFiles
                               ELSE Put(dbFiles, metadata.SourcePath, EncodeMetadata(metadata))
                 /\ Goto(t, IF pc[t] = "op_start_tx" THEN "op_start_store"
                                                     ELSE "op_end_store", frame[t])
    /\ UNCHANGED <<lockFile, dbAttrs, dbServer, handle, tm, preexisting,
                   memFiles, memAttrs, serverInfo, hist>>

\* The db.Update of that UpdateStatus's StoreOrUpdate; its error ends Operate.
Operate_Update(t) ==
    /\ pc[t] \in {"op_start_tx", "op_end_tx"}
    /\ \E io \in IOs :
         LET metadata == frame[t].metadata
             err == UpdateErr(metadata, io)
         IN IF err # ""
            THEN /\ Return(t, OperateFailure(frame[t]), err)
                 /\ UNCHANGED dbFiles
            ELSE /\ dbFiles' = Put(dbFiles, metadata.SourcePath, EncodeMetadata(metadata))
                 /\ Goto(t, IF pc[t] = "op_start_tx" THEN "op_start_store"
                                                     ELSE "op_end_store", frame[t])
    /\ UNCHANGED <<lockFile, dbAttrs, dbServer, handle, tm, preexisting,
                   memFiles, memAttrs, serverInfo, hist>>

\* Its m.Store; then transfer is called, or the callback returns true.
Operate_Store(t) ==
    /\ pc[t] \in {"op_start_store", "op_end_store"}
    /\ memFiles' = Put(memFiles, frame[t].metadata.SourcePath, frame[t].metadata)
    /\ stored' = Put(stored, frame[t].metadata.SourcePath, frame[t].metadata)
    /\ Goto(t, IF pc[t] = "op_start_store" THEN "op_transfer" ELSE AfterRecord(frame[t]),
            frame[t])
    /\ UNCHANGED <<disk, handle, tm, preexisting, memAttrs, serverInfo,
                   storedAttrs, deleted, clean, finished>>

\* n, err := transfer(meta.SourcePath, meta.TargetPath)
Operate_Transfer(t) ==
    /\ pc[t] = "op_transfer"
    /\ \E r \in TransferResults :
         Goto(t, "op_end",
              [frame[t] EXCEPT !.calls = Append(@, [key |-> frame[t].key,
                                                    n |-> r.n, e |-> r.e])])
    /\ UNCHANGED <<disk, handle, tm, preexisting, memFiles, memAttrs, serverInfo, hist>>

\* The result of a TransferManager.sync call: the errors a syncFile and a
\* syncAttribute of its sweeps returned ("" for nil).
SyncCall(f) ==
    [op |-> "sync", reg |-> "TransferManager", key |-> "",
     sync_err |-> f.sync_err, att_err |-> f.att_err]

\* TransferManager.sync (unexported, no caller in the package) begins:
\* tm.Files.sync().
TransferManager_sync(t) ==
    /\ Callable(t)
    /\ Goto(t, "sync_range",
            [call |-> [op |-> "sync", reg |-> "TransferManager", key |-> ""],
             key |-> "", metadata |-> ZeroMetadata, data |-> NilPayload,
             sync_visited |-> {}, sync_err |-> "", att_visited |-> {}, att_err |-> ""])
    /\ UNCHANGED <<disk, handle, tm, preexisting, memFiles, memAttrs, serverInfo, hist>>

\* The Range callback of fmm.sync got err from syncFile: it returns false,
\* the error is dropped, and db.Sync follows.
SweepStopped(t, f, err) == Goto(t, "sync_db", [f EXCEPT !.sync_err = err])

\* fmm.sync: Range calls syncFile on every key and stops at the first
\* error; then db.Sync.
Sync_Range(t) ==
    /\ pc[t] = "sync_range"
    /\ \/ \E k \in DOMAIN memFiles \ frame[t].sync_visited :
            Goto(t, "sync_file", [frame[t] EXCEPT !.key = k, !.sync_visited = @ \cup {k}])
       \/ /\ DOMAIN memFiles \subseteq frame[t].sync_visited
          /\ Goto(t, "sync_db", frame[t])
    /\ UNCHANGED <<disk, handle, tm, preexisting, memFiles, memAttrs, serverInfo, hist>>

\* syncFile: Load the key, StoreOrUpdate what was loaded.
Sync_File(t) ==
    /\ pc[t] = "sync_file"
    /\ IF ~Files_Load(frame[t].key)[2]
       THEN SweepStopped(t, frame[t], "not found in map")
       ELSE Goto(t, "sync_tx", [frame[t] EXCEPT !.metadata = Files_Load(frame[t].key)[1]])
    /\ UNCHANGED <<disk, handle, tm, preexisting, memFiles, memAttrs, serverInfo, hist>>

\* The db.Update of syncFile's StoreOrUpdate.
Sync_Update(t) ==
    /\ pc[t] = "sync_tx"
    /\ \E io \in IOs :
         LET metadata == frame[t].metadata IN
         IF UpdateErr(metadata, io) # ""
         THEN /\ SweepStopped(t, frame[t], UpdateErr(metadata, io))
              /\ UNCHANGED dbFiles
         ELSE /\ dbFiles' = Put(dbFiles, metadata.SourcePath, EncodeMetadata(metadata))
              /\ Goto(t, "sync_store", frame[t])
    /\ UNCHANGED <<lockFile, dbAttrs, dbServer, handle, tm, preexisting,
                   memFiles, memAttrs, serverInfo, hist>>

\* Its m.Store; the Range goes on.
Sync_Store(t) ==
    /\ pc[t] = "sync_store"
    /\ memFiles' = Put(memFiles, frame[t].metadata.SourcePath, frame[t].metadata)
    /\ stored' = Put(stored, frame[t].metadata.SourcePath, frame[t].metadata)
    /\ Goto(t, "sync_range", frame[t])
    /\ UNCHANGED <<disk, handle, tm, preexisting, memAttrs, serverInfo,
                   storedAttrs, deleted, clean, finished>>

\* The db.Sync ending fmm.sync (it fails on a closed DB).  Operate returns
\* its error with a nil slice, and otherwise what GetSlice returns;
\* TransferManager.sync returns its error, and otherwise goes on with
\* tm.Attributes.sync().
Sync_Db(t) ==
    /\ pc[t] = "sync_db"
    /\ \E io \in IOs :
         IF frame[t].call.op = "Operate"
         THEN IF ~dbOpen \/ io = "io"
              THEN Return(t, OperateCall(frame[t], NilSlice), "sync")
              ELSE IF DOMAIN memFiles = {}
              THEN Return(t, OperateCall(frame[t], NilSlice), "no files found")
              ELSE Return(t, OperateCall(frame[t], SliceOf(memFiles)), "")
         ELSE IF ~dbOpen \/ io = "io"
              THEN Return(t, SyncCall(frame[t]), "sync")
              ELSE Goto(t, "att_sync_range", frame[t])
    /\ UNCHANGED <<disk, handle, tm, preexisting, memFiles, memAttrs, serverInfo, hist>>

\* attributes.sync: Range calls syncAttribute on every key and stops at the
\* first error, which is dropped; then db.Sync.
AttSync_Range(t) ==
    /\ pc[t] = "att_sync_range"
    /\ \/ \E k \in DOMAIN memAttrs \ frame[t].att_visited :
            Goto(t, "att_sync_attr", [frame[t] EXCEPT !.key = k, !.att_visited = @ \cup {k}])
       \/ /\ DOMAIN memAttrs \subseteq frame[t].att_visited
          /\ Goto(t, "att_sync_db", frame[t])
    /\ UNCHANGED <<disk, handle, tm, preexisting, memFiles, memAttrs, serverInfo, hist>>

\* syncAttribute: Load the key, StoreOrUpdate what was loaded (its payload is
\* encoded before the transaction).
AttSync_Attribute(t) ==
    /\ pc[t] = "att_sync_attr"
    /\ IF ~Attributes_Load(frame[t].key)[2]
       THEN Goto(t, "att_sync_db", [frame[t] EXCEPT !.att_err = "not found in map"])
       ELSE IF ~EncodeAnyOk(Attributes_Load(frame[t].key)[1])
       THEN Goto(t, "att_sync_db", [frame[t] EXCEPT !.att_err = "gob: cannot encode nil value"])
       ELSE Goto(t, "att_sync_tx", [frame[t] EXCEPT !.data = Attributes_Load(frame[t].key)[1]])
    /\ UNCHANGED <<disk, handle, tm, preexisting, memFiles, memAttrs, serverInfo, hist>>

\* The db.Update of syncAttribute's StoreOrUpdate.
AttSync_Update(t) ==
    /\ pc[t] = "att_sync_tx"
    /\ \E io \in IOs :
         IF AttUpdateErr(frame[t].key, io) # ""
         THEN /\ Goto(t, "att_sync_db",
                      [frame[t] EXCEPT !.att_err = AttUpdateErr(frame[t].key, io)])
              /\ UNCHANGED dbAttrs
         ELSE /\ dbAttrs' = Put(dbAttrs, frame[t].key, EncodeAny(frame[t].data))
              /\ Goto(t, "att_sync_store", frame[t])
    /\ UNCHANGED <<lockFile, dbFiles, dbServer, handle, tm, preexisting,
                   memFiles, memAttrs, serverInfo, hist>>

\* Its m.Store; the Range goes on.
AttSync_Store(t) ==
    /\ pc[t] = "att_sync_store"
    /\ memAttrs' = Put(memAttrs, frame[t].key, frame[t].data)
    /\ storedAttrs' = Put(storedAttrs, frame[t].key, frame[t].data)
    /\ Goto(t, "att_sync_range", frame[t])
    /\ UNCHANGED <<disk, handle, tm, preexisting, memFiles, serverInfo,
                   stored, deleted, clean, finished>>

\* The db.Sync ending attributes.sync; TransferManager.sync returns its error.
AttSync_Db(t) ==
    /\ pc[t] = "att_sync_db"
    /\ \E io \in IOs :
         IF ~dbOpen \/ io = "io"
         THEN Return(t, SyncCall(frame[t]), "sync")
         ELSE Goto(t, "tm_sync_db", frame[t])
    /\ UNCHANGED <<disk, handle, tm, preexisting, memFiles, memAttrs, serverInfo, hist>>

\* The db.Sync ending TransferManager.sync.
TmSync_Db(t) ==
    /\ pc[t] = "tm_sync_db"
    /\ \E io \in IOs :
         Return(t, SyncCall(frame[t]), IF ~dbOpen \/ io = "io" THEN "sync" ELSE "")
    /\ UNCHANGED <<disk, handle, tm, preexisting, memFiles, memAttrs, serverInfo, hist>>

\* ------------------------------------------------------------- specifications
\* One goroutine using the manager, every call returning before the next
\* begins: the whole life of the lock file, with the three namespaces.
Next ==
    \/ NewTransferManager(1)
    \/ Close(1)
    \/ Finish(1)
    \/ Crash
    \/ \E info \in ServerInfos : StoreOrUpdateServerInfo(1, info)
    \/ StoreOrUpdateServerInfo_set(1)
    \/ \E metadata \in InputMetadata : Files_StoreOrUpdate(1, metadata)
    \/ \E k \in FileKeys : Files_Start(1, k)
    \/ \E k \in FileKeys : Files_SetSuccess(1, k, 7)
    \/ StoreOrUpdate_Update(1)
    \/ StoreOrUpdate_Store(1)
    \/ \E k \in FileKeys : Files_Delete(1, k)
    \/ Files_Delete_m(1)
    \/ \E k \in AttrKeys, d \in Payloads : Attributes_StoreOrUpdate(1, k, d)
    \/ Attributes_Update(1)
    \/ Attributes_Store(1)
    \/ \E k \in AttrKeys : Attributes_Delete(1, k)
    \/ Attributes_Delete_m(1)

Spec == Init /\ [][Next]_vars

\* One goroutine working on the transfer records through every status call.
StatusMetadata == {NewMetadata("a", StatusNotStarted)}

NextStatus ==
    \/ NewTransferManager(1)
    \/ Crash
    \/ \E metadata \in StatusMetadata : Files_StoreOrUpdate(1, metadata)
    \/ \E k \in FileKeys, st \in Statuses, n \in ByteCounts, e \in Errs :
         Files_UpdateStatus(1, k, st, n, e)
    \/ \E k \in FileKeys : Files_Start(1, k)
    \/ \E k \in FileKeys, e \in Errs : Files_SetError(1, k, e)
    \/ \E k \in FileKeys, n \in ByteCounts : Files_SetSuccess(1, k, n)
    \/ StoreOrUpdate_Update(1)
    \/ StoreOrUpdate_Store(1)
    \/ \E k \in FileKeys : Files_Delete(1, k)
    \/ Files_Delete_m(1)

SpecStatus == Init /\ [][NextStatus]_vars

\* Several goroutines calling the Files registry at once; a step is one
\* transaction or one sync.Map call of one goroutine.
ConcKeys == {"a", "b"}
ConcMetadata == {NewMetadata(k, st) : k \in ConcKeys, st \in {StatusNotStarted, StatusCompleted}}

NextConc ==
    \/ \E t \in Threads : NewTransferManager(t)
    \/ Crash
    \/ \E t \in Threads, metadata \in ConcMetadata : Files_StoreOrUpdate(t, metadata)
    \/ \E t \in Threads, k \in ConcKeys : Files_Start(t, k)
    \/ \E t \in Threads : StoreOrUpdate_Update(t)
    \/ \E t \in Threads : StoreOrUpdate_Store(t)
    \/ \E t \in Threads, k \in ConcKeys : Files_Delete(t, k)
    \/ \E t \in Threads : Files_Delete_m(t)

SpecConc == Init /\ [][NextConc]_vars

\* Several goroutines, each storing under a key of its own in both registries.
OwnKey(t) == ToString(t)

NextDisjoint ==
    \/ \E t \in Threads : NewTransferManager(t)
    \/ \E t \in Threads, st \in {StatusNotStarted, StatusCompleted} :
         Files_StoreOrUpdate(t, NewMetadata(OwnKey(t), st))
    \/ \E t \in Threads : Files_Start(t, OwnKey(t))
    \/ \E t \in Threads : StoreOrUpdate_Update(t)
    \/ \E t \in Threads : StoreOrUpdate_Store(t)
    \/ \E t \in Threads, d \in Payloads : Attributes_StoreOrUpdate(t, OwnKey(t), d)
    \/ \E t \in Threads : Attributes_Update(t)
    \/ \E t \in Threads : Attributes_Store(t)

SpecDisjoint == Init /\ [][NextDisjoint]_vars

\* One goroutine storing and deleting records and attributes and running
\* Operate and GetSlice, every call returning before the next begins.
OperateMetadata == {NewMetadata(k, StatusNotStarted) : k \in ConcKeys}

NextOperate ==
    \/ NewTransferManager(1)
    \/ Close(1)
    \/ \E metadata \in OperateMetadata : Files_StoreOrUpdate(1, metadata)
    \/ StoreOrUpdate_Update(1)
    \/ StoreOrUpdate_Store(1)
    \/ Files_GetSlice(1)
    \/ Attributes_GetSlice(1)
    \/ Files_Operate(1)
    \/ Operate_Range(1)
    \/ Operate_UpdateStatus(1)
    \/ Operate_Update(1)
    \/ Operate_Store(1)
    \/ Operate_Transfer(1)
    \/ Sync_Range(1)
    \/ Sync_File(1)
    \/ Sync_Update(1)
    \/ Sync_Store(1)
    \/ Sync_Db(1)
    \/ \E k \in ConcKeys : Files_Delete(1, k)
    \/ Files_Delete_m(1)
    \/ \E k \in AttrKeys, d \in Payloads : Attributes_StoreOrUpdate(1, k, d)
    \/ Attributes_Update(1)
    \/ Attributes_Store(1)
    \/ \E k \in AttrKeys : Attributes_Delete(1, k)
    \/ Attributes_Delete_m(1)

SpecOperate == Init /\ [][NextOperate]_vars

\* One goroutine storing records and running Operate while another deletes
\* the record "a".
NextOperateConc ==
    \/ NewTransferManager(1)
    \/ \E metadata \in OperateMetadata : Files_StoreOrUpdate(1, metadata)
    \/ StoreOrUpdate_Update(1)
    \/ StoreOrUpdate_Store(1)
    \/ Files_Operate(1)
    \/ Operate_Range(1)
    \/ Operate_UpdateStatus(1)
    \/ Operate_Update(1)
    \/ Operate_Store(1)
    \/ Operate_Transfer(1)
    \/ Sync_Range(1)
    \/ Sync_File(1)
    \/ Sync_Update(1)
    \/ Sync_Store(1)
    \/ Sync_Db(1)
    \/ Files_Delete(2, "a")
    \/ Files_Delete_m(2)

SpecOperateConc == Init /\ [][NextOperateConc]_vars

\* One goroutine storing records and running Operate in a process that may
\* die at any step and be started again on the same lock file.
NextOperateCrash ==
    \/ NewTransferManager(1)
    \/ Crash
    \/ \E metadata \in OperateMetadata : Files_StoreOrUpdate(1, metadata)
    \/ StoreOrUpdate_Update(1)
    \/ StoreOrUpdate_Store(1)
    \/ Files_Operate(1)
    \/ Operate_Range(1)
    \/ Operate_UpdateStatus(1)
    \/ Operate_Update(1)
    \/ Operate_Store(1)
    \/ Operate_Transfer(1)
    \/ Sync_Range(1)
    \/ Sync_File(1)
    \/ Sync_Update(1)
    \/ Sync_Store(1)
    \/ Sync_Db(1)

SpecOperateCrash == Init /\ [][NextOperateCrash]_vars

\* One goroutine storing records and attributes and running Operate and
\* TransferManager.sync, in a process that may die at any step and be started
\* again on the same lock file.
SyncMetadata == {NewMetadata(k, StatusCompleted) : k \in ConcKeys}
SyncPayloads == {[kind |-> "string", v |-> "x"], [kind |-> "ptrany", v |-> "x"]}

NextSync ==
    \/ NewTransferManager(1)
    \/ Crash
    \/ \E metadata \in SyncMetadata : Files_StoreOrUpdate(1, metadata)
    \/ StoreOrUpdate_Update(1)
    \/ StoreOrUpdate_Store(1)
    \/ \E d \in SyncPayloads : Attributes_StoreOrUpdate(1, "k", d)
    \/ Attributes_Update(1)
    \/ Attributes_Store(1)
    \/ Files_Operate(1)
    \/ Operate_Range(1)
    \/ Operate_UpdateStatus(1)
    \/ Operate_Update(1)
    \/ Operate_Store(1)
    \/ Operate_Transfer(1)
    \/ TransferManager_sync(1)
    \/ Sync_Range(1)
    \/ Sync_File(1)
    \/ Sync_Update(1)
    \/ Sync_Store(1)
    \/ Sync_Db(1)
    \/ AttSync_Range(1)
    \/ AttSync_Attribute(1)
    \/ AttSync_Update(1)
    \/ AttSync_Store(1)
    \/ AttSync_Db(1)
    \/ TmSync_Db(1)

SpecSync == Init /\ [][NextSync]_vars

\* One goroutine calling every method of the manager, before and after Close
\* or Finish, in a process that may die at any step and be started again on
\* the same lock file.
ClosedMetadata == {NewMetadata("a", StatusNotStarted)}
ClosedKeys == {"a", "b"}

NextClosed ==
    \/ NewTransferManager(1)
    \/ Close(1)
    \/ Finish(1)
    \/ Crash
    \/ \E info \in ServerInfos : StoreOrUpdateServerInfo(1, info)
    \/ StoreOrUpdateServerInfo_set(1)
    \/ \E metadata \in ClosedMetadata : Files_StoreOrUpdate(1, metadata)
    \/ \E k \in ClosedKeys, st \in Statuses, e \in Errs : Files_UpdateStatus(1, k, st, 7, e)
    \/ \E k \in ClosedKeys : Files_Start(1, k)
    \/ \E k \in ClosedKeys, e \in Errs : Files_SetError(1, k, e)
    \/ \E k \in ClosedKeys : Files_SetSuccess(1, k, 7)
    \/ StoreOrUpdate_Update(1)
    \/ StoreOrUpdate_Store(1)
    \/ \E k \in ClosedKeys : Files_Delete(1, k)
    \/ Files_Delete_m(1)
    \/ \E d \in Payloads : Attributes_StoreOrUpdate(1, "k", d)
    \/ Attributes_Update(1)
    \/ Attributes_Store(1)
    \/ Attributes_Delete(1, "k")
    \/ Attributes_Delete_m(1)
    \/ Files_Operate(1)
    \/ Operate_Range(1)
    \/ Operate_UpdateStatus(1)
    \/ Operate_Update(1)
    \/ Operate_Store(1)
    \/ Operate_Transfer(1)
    \/ TransferManager_sync(1)
    \/ Sync_Range(1)
    \/ Sync_File(1)
    \/ Sync_Update(1)
    \/ Sync_Store(1)
    \/ Sync_Db(1)
    \/ AttSync_Range(1)
    \/ AttSync_Attribute(1)
    \/ AttSync_Update(1)
    \/ AttSync_Store(1)
    \/ AttSync_Db(1)
    \/ TmSync_Db(1)

SpecClosed == Init /\ [][NextClosed]_vars

\* One goroutine storing connection parameters, valid and not, over the
\* life of the lock file.
ServerInputs ==
    [Address : {"localhost"}, Port : {-1, 0, 8080, 65535, 65536, 70000},
     User : {"admin", ""}]

NextServer ==
    \/ NewTransferManager(1)
    \/ Close(1)
    \/ Finish(1)
    \/ Crash
    \/ \E info \in ServerInputs : StoreOrUpdateServerInfo(1, info)
    \/ StoreOrUpdateServerInfo_set(1)

SpecServer == Init /\ [][NextServer]_vars


\* ------------------------------------------------------------- claims
\* The step is a run of the constructor.
Constructs == tm # "ready" /\ tm' \in {"ready", "failed"}

\* Goroutine t returns from a call in this step.
Returns(t) == ret'[t] # NoRet /\ (pc[t] # "idle" \/ ret'[t] # ret[t])

\* C1: when a session stored transfer records (each call returned nil) and
\* ended without Finish with no call cut short, the next constructor run on
\* the file (its I/O succeeding) returns a manager with IsPreexisting() true
\* whose Files registry holds exactly the records stored last per key.
C1_RecoveryRoundTrip ==
    [][(Constructs /\ lockFile /\ clean /\ stored # EmptyMap /\ ret'[1].err # "io")
         => (tm' = "ready" /\ preexisting' /\ memFiles' = stored)]_vars

\* C2: with no call in progress, Load(k) of either registry returns
\* (r, true) for the value r the last returned call stored under k, and a
\* transfer record stored under k has SourcePath = k.
C2_StoreLoad ==
    (tm \in {"ready", "closed"} /\ AllIdle) =>
        /\ \A k \in DOMAIN stored :
             Files_Load(k) = <<stored[k], TRUE>> /\ stored[k].SourcePath = k
        /\ \A k \in DOMAIN storedAttrs :
             Attributes_Load(k) = <<storedAttrs[k], TRUE>>

C2_Witness ==
    /\ tm = "ready"
    /\ ret[1].call.op = "StoreOrUpdate" /\ ret[1].call.reg = "Attributes" /\ ret[1].err = ""
    /\ Attributes_Load(ret[1].call.key)[2]
    /\ "a" \in DOMAIN stored /\ "b" \in DOMAIN stored
    /\ stored["a"].Status # stored["b"].Status

\* C3: when Delete(k) has returned nil, Load(k) finds nothing and the key is
\* not in the bucket, in both registries; and a constructor run never loads
\* a key whose record a returned Delete removed (Files), nor a key outside
\* those stored and not deleted (Attributes, no call cut by a crash).
C3_DeleteLoad ==
    /\ [](\A t \in Threads :
            (ret[t].call.op = "Delete" /\ ret[t].err = "") =>
                IF ret[t].call.reg = "Files"
                THEN ~Files_Load(ret[t].call.key)[2] /\ ret[t].call.key \notin DOMAIN dbFiles
                ELSE ~Attributes_Load(ret[t].call.key)[2]
                     /\ ret[t].call.key \notin DOMAIN dbAttrs)
    /\ [][Constructs =>
            /\ \A k \in deleted : k \notin DOMAIN memFiles'
            /\ clean => DOMAIN memAttrs' \subseteq DOMAIN storedAttrs]_vars

C3_Witness ==
    /\ ret[1].call.op = "Delete" /\ ret[1].call.reg = "Files" /\ ret[1].err = ""
    /\ ret[1].call.key = "a" /\ ret[1].call.had
    /\ preexisting
    /\ "b" \in DOMAIN memFiles /\ "k" \in DOMAIN memAttrs

\* C4: when Finish has returned nil the lock file does not exist; the
\* constructor run that follows (its I/O succeeding) returns a manager with
\* IsPreexisting() false, empty registries and no server info.
C4_CleanShutdown ==
    /\ [](\A t \in Threads :
            (ret[t].call.op = "Finish" /\ ret[t].err = "") => ~lockFile)
    /\ [][(Constructs /\ finished /\ ret'[1].err # "io") =>
            /\ tm' = "ready"
            /\ ~preexisting'
            /\ memFiles' = EmptyMap /\ memAttrs' = EmptyMap
            /\ serverInfo' = NoServerInfo]_vars

C4_Witness ==
    /\ tm = "ready"
    /\ ret[1].call.op = "NewTransferManager" /\ ret[1].call.had /\ ret[1].err = ""
    /\ ~preexisting /\ memFiles = EmptyMap

\* C5: a registry call that returns an error leaves both in-memory maps as
\* they were; and an entry enters or changes in a map only when the bucket
\* already holds it (the transaction committed before).
C5_FailureAtomicity ==
    /\ [][\A t \in Threads :
            (Returns(t) /\ ret'[t].call.reg \in {"Files", "Attributes"} /\ ret'[t].err # "")
                => (memFiles' = memFiles /\ memAttrs' = memAttrs)]_vars
    /\ [][/\ \A k \in DOMAIN memFiles' :
               (k \notin DOMAIN memFiles \/ memFiles'[k] # memFiles[k])
                   => (k \in DOMAIN dbFiles /\ DecodeMetadata(dbFiles[k]) = memFiles'[k])
          /\ \A k \in DOMAIN memAttrs' :
               (k \notin DOMAIN memAttrs \/ memAttrs'[k] # memAttrs[k])
                   => (k \in DOMAIN dbAttrs
                       /\ (dbAttrs[k] = EncodeAny(memAttrs'[k])
                           \/ DecodeAny(dbAttrs[k]) = memAttrs'[k]))]_vars

C5_Witness ==
    /\ tm = "ready"
    /\ ret[1].call.op = "StoreOrUpdate" /\ ret[1].call.reg = "Files" /\ ret[1].err = "io"
    /\ ret[1].call.key \in DOMAIN memFiles
    /\ memFiles[ret[1].call.key].Status = StatusCompleted

\* C6: when every goroutine's last call was a StoreOrUpdate, UpdateStatus,
\* Start, SetError or SetSuccess on the same key k, all of them returned nil
\* and none is running, the record Load(k) returns is the record the bucket
\* holds under k (the one the last committed transaction wrote).
WriteOps == {"StoreOrUpdate", "UpdateStatus", "Start", "SetError", "SetSuccess"}

C6_SameKeyLinearize ==
    \A k \in ConcKeys :
        (/\ tm = "ready"
         /\ AllIdle
         /\ \A t \in Threads :
              /\ ret[t].call.op \in WriteOps /\ ret[t].call.reg = "Files"
              /\ ret[t].call.key = k /\ ret[t].err = "")
            => /\ Files_Load(k)[2]
               /\ k \in DOMAIN dbFiles
               /\ Files_Load(k)[1] = DecodeMetadata(dbFiles[k])

\* C7: when a goroutine's StoreOrUpdate under its own key has returned nil,
\* whatever the other goroutines did meanwhile under theirs, Load of the key
\* returns the value it stored and the bucket holds that value under the key.
C7_DisjointKeys ==
    \A t \in Threads :
        LET call == ret[t].call IN
        (call.op = "StoreOrUpdate" /\ ret[t].err = "") =>
            IF call.reg = "Files"
            THEN /\ Files_Load(call.key) = <<call.val, TRUE>>
                 /\ call.key \in DOMAIN dbFiles
                 /\ DecodeMetadata(dbFiles[call.key]) = call.val
            ELSE /\ Attributes_Load(call.key) = <<call.val, TRUE>>
                 /\ call.key \in DOMAIN dbAttrs
                 /\ dbAttrs[call.key] = EncodeAny(call.val)

C7_Witness ==
    /\ AllIdle
    /\ \A t \in Threads : ret[t].call.op = "StoreOrUpdate" /\ ret[t].err = ""
    /\ ret[1].call.reg = "Files" /\ ret[2].call.reg = "Attributes"
    /\ \A t \in Threads : OwnKey(t) \in DOMAIN memFiles /\ OwnKey(t) \in DOMAIN memAttrs
    /\ memFiles[OwnKey(1)].Status # memFiles[OwnKey(2)].Status

\* C8: a constructor run never loads a key whose record a returned Delete
\* removed, unless a StoreOrUpdate (the one of UpdateStatus included) began
\* on that key after the Delete returned.
C8_NoResurrection ==
    [][Constructs => \A k \in deleted : k \notin DOMAIN memFiles']_vars

\* C9: when Start(k), SetSuccess(k, n) or SetError(k, e) has returned nil,
\* the record of k has Status InProgress and TimeStart set, respectively
\* Status Completed, BytesTransferred n and TimeEnd set, respectively Status
\* Failed, ErrorMsg the message of e (e not nil) and TimeEnd set; and the
\* bucket holds that same record under k.
C9_StatusTransitionLaw ==
    \A t \in Threads :
        LET call == ret[t].call
            k == call.key
        IN (call.op \in {"Start", "SetSuccess", "SetError"} /\ ret[t].err = "") =>
              /\ Files_Load(k)[2]
              /\ k \in DOMAIN dbFiles
              /\ DecodeMetadata(dbFiles[k]) = Files_Load(k)[1]
              /\ call.op = "Start" =>
                    /\ memFiles[k].Status = StatusInProgress
                    /\ memFiles[k].TimeStart # 0
              /\ call.op = "SetSuccess" =>
                    /\ memFiles[k].Status = StatusCompleted
                    /\ memFiles[k].BytesTransferred = call.n
                    /\ memFiles[k].TimeEnd # 0
              /\ call.op = "SetError" =>
                    /\ memFiles[k].Status = StatusFailed
                    /\ ~call.e.isNil => memFiles[k].ErrorMsg = call.e.msg
                    /\ memFiles[k].TimeEnd # 0

C9_Witness ==
    /\ ret[1].call.op = "SetError" /\ ret[1].err = ""
    /\ ~ret[1].call.e.isNil
    /\ memFiles[ret[1].call.key].Status = StatusFailed
    /\ memFiles[ret[1].call.key].ErrorMsg = ret[1].call.e.msg
    /\ memFiles[ret[1].call.key].TimeStart # 0
    /\ memFiles[ret[1].call.key].TimeEnd # 0

\* C10: a call of UpdateStatus, Start, SetError or SetSuccess that returns nil
\* leaves the status of its record as it was or moves it one step along
\* NotStarted -> InProgress -> {Completed | Failed}.
StatusOrder == {<<StatusNotStarted, StatusInProgress>>,
                <<StatusInProgress, StatusCompleted>>,
                <<StatusInProgress, StatusFailed>>}

C10_MonotonicStatus ==
    [][\A t \in Threads :
          (/\ Returns(t)
           /\ ret'[t].call.op \in {"UpdateStatus", "Start", "SetError", "SetSuccess"}
           /\ ret'[t].err = ""
           /\ ret'[t].call.key \in DOMAIN memFiles)
              => \/ memFiles'[ret'[t].call.key].Status = memFiles[ret'[t].call.key].Status
                 \/ <<memFiles[ret'[t].call.key].Status,
                       memFiles'[ret'[t].call.key].Status>> \in StatusOrder]_vars

\* C11: a call UpdateStatus(k, status, n, err) on a present key that returns
\* nil changes TimeStart only when status = InProgress and then sets it,
\* changes TimeEnd only when status is Completed or Failed and then sets it,
\* and changes ErrorMsg only when status = Failed.
C11_FieldSettingRules ==
    [][\A t \in Threads :
          (/\ Returns(t)
           /\ ret'[t].call.op \in {"UpdateStatus", "Start", "SetError", "SetSuccess"}
           /\ ret'[t].err = ""
           /\ ret'[t].call.key \in DOMAIN memFiles)
              => LET old == memFiles[ret'[t].call.key]
                     new == memFiles'[ret'[t].call.key]
                     status == ret'[t].call.status
                 IN /\ new.TimeStart # old.TimeStart => status = StatusInProgress
                    /\ status = StatusInProgress => new.TimeStart # 0
                    /\ new.TimeEnd # old.TimeEnd
                          => status \in {StatusCompleted, StatusFailed}
                    /\ status \in {StatusCompleted, StatusFailed} => new.TimeEnd # 0
                    /\ new.ErrorMsg # old.ErrorMsg => status = StatusFailed]_vars

\* Errors of the store itself: a failed commit or sync, a closed DB.
IOErrs == {"io", "sync", "ErrDatabaseNotOpen"}

\* C12: an Operate on a non-empty registry, called with no other call
\* running, transfer returning a nil error every time and the store not
\* failing, returns nil; transfer was called exactly once for each record
\* present at the start and for no other; every record is Completed with the
\* byte count transfer returned for it; the slice returned holds exactly one
\* element per record of the registry, and so does the slice of a GetSlice
\* that follows.
C12_OperateSuccess ==
    \A t \in Threads :
        LET call == ret[t].call IN
        /\ (/\ call.op = "Operate"
            /\ DOMAIN call.snap # {}
            /\ \A i \in 1..Len(call.calls) : call.calls[i].e.isNil
            /\ ret[t].err \notin IOErrs)
              => /\ ret[t].err = ""
                 /\ \A k \in DOMAIN call.snap :
                      Cardinality({i \in 1..Len(call.calls) : call.calls[i].key = k}) = 1
                 /\ \A i \in 1..Len(call.calls) :
                      /\ call.calls[i].key \in DOMAIN call.snap
                      /\ memFiles[call.calls[i].key].Status = StatusCompleted
                      /\ memFiles[call.calls[i].key].BytesTransferred = call.calls[i].n
                 /\ DOMAIN memFiles = DOMAIN call.snap
                 /\ ~call.out.isNil
                 /\ Len_(call.out) = Cardinality(DOMAIN memFiles)
                 /\ DOMAIN call.out.elems = {memFiles[k] : k \in DOMAIN memFiles}
        /\ (call.op = "GetSlice" /\ call.reg = "Files" /\ ret[t].err = "")
              => /\ Len_(call.out) = Cardinality(DOMAIN memFiles)
                 /\ DOMAIN call.out.elems = {memFiles[k] : k \in DOMAIN memFiles}

C12_Witness ==
    /\ ret[1].call.op = "Operate" /\ ret[1].err = ""
    /\ Len(ret[1].call.calls) = 2
    /\ \A i \in 1..2 : ret[1].call.calls[i].e.isNil
    /\ \E k \in DOMAIN ret[1].call.snap : ret[1].call.snap[k] = StatusCompleted
    /\ \E k \in DOMAIN ret[1].call.snap : ret[1].call.snap[k] = StatusNotStarted
    /\ Len_(ret[1].call.out) = 2

\* C13: in an Operate called with no other call running and the store not
\* failing, every record whose transfer returned (n, err) with err not nil
\* is Failed with BytesTransferred n and ErrorMsg the message of err, transfer
\* was still called for every record present at the start, and Operate
\* returns nil.
C13_OperateTransferFailure ==
    \A t \in Threads :
        LET call == ret[t].call IN
        (/\ call.op = "Operate"
         /\ \E i \in 1..Len(call.calls) : ~call.calls[i].e.isNil
         /\ ret[t].err \notin IOErrs)
           => /\ ret[t].err = ""
              /\ \A i \in 1..Len(call.calls) :
                   ~call.calls[i].e.isNil =>
                      /\ memFiles[call.calls[i].key].Status = StatusFailed
                      /\ memFiles[call.calls[i].key].BytesTransferred = call.calls[i].n
                      /\ memFiles[call.calls[i].key].ErrorMsg = call.calls[i].e.msg
              /\ \A k \in DOMAIN call.snap :
                   \E i \in 1..Len(call.calls) : call.calls[i].key = k

C13_Witness ==
    /\ ret[1].call.op = "Operate" /\ ret[1].err = ""
    /\ Len(ret[1].call.calls) = 2
    /\ ~ret[1].call.calls[1].e.isNil
    /\ ret[1].call.calls[2].e.isNil
    /\ memFiles[ret[1].call.calls[1].key].Status = StatusFailed
    /\ memFiles[ret[1].call.calls[2].key].Status = StatusCompleted

\* C14: an Operate that returns the error of one of its UpdateStatus calls
\* (the key gone, the write transaction failed) returns a nil slice, has not
\* begun fmm.sync, called transfer for no record after the failing one, and
\* every record it had not visited has the status it had when Operate began.
BookkeepingErrs == {"not found in map", "io", "ErrDatabaseNotOpen", "ErrKeyRequired"}

C14_OperateBookkeepingFailure ==
    \A t \in Threads :
        LET call == ret[t].call IN
        (call.op = "Operate" /\ ret[t].err \in BookkeepingErrs)
           => /\ call.out.isNil
              /\ ~call.synced
              /\ {call.calls[i].key : i \in 1..Len(call.calls)} \subseteq call.visited
              /\ Len(call.calls) \in {Cardinality(call.visited), Cardinality(call.visited) - 1}
              /\ \A k \in (DOMAIN call.snap \ call.visited) \cap DOMAIN memFiles :
                   memFiles[k].Status = call.snap[k]

C14_Witness ==
    /\ ret[1].call.op = "Operate" /\ ret[1].err = "not found in map"
    /\ Len(ret[1].call.calls) = 1
    /\ ret[1].call.calls[1].key = "a"
    /\ "b" \in DOMAIN ret[1].call.snap /\ "b" \notin ret[1].call.visited
    /\ "b" \in DOMAIN memFiles /\ "a" \notin DOMAIN memFiles
    /\ ret[2].call.op = "Delete" /\ ret[2].err = ""

\* C15: when StoreOrUpdateServerInfo(p) has returned nil, GetServerInfo()
\* returns p (address, port, user) with a nil error and the Server bucket
\* holds p under "Info"; the bucket never holds another key.
C15_ServerInfoRoundTrip ==
    /\ DOMAIN dbServer \subseteq {serverInfoKey}
    /\ \A t \in Threads :
         (ret[t].call.op = "StoreOrUpdateServerInfo" /\ ret[t].err = "") =>
            /\ GetServerInfo = <<ret[t].call.val, "">>
            /\ serverInfoKey \in DOMAIN dbServer
            /\ DecodeServerInfo(dbServer[serverInfoKey]) = ret[t].call.val

C15_Witness ==
    /\ ret[1].call.op = "StoreOrUpdateServerInfo" /\ ret[1].err = ""
    /\ ret[1].call.val.Port = 0
    /\ preexisting
    /\ GetServerInfo[1].User = "admin"

\* C16: a StoreOrUpdateServerInfo with a port outside 0..65535 or an empty
\* user returns an error and leaves tm.serverInfo and the Server bucket as
\* they were; ports 0 and 65535 with a user are not rejected; and a
\* constructor run that succeeds returns what the bucket holds.
InvalidInfo(info) == info.Port < 0 \/ info.Port > 65535 \/ info.User = ""

C16_ValidationSideEffectFree ==
    [][/\ \A t \in Threads :
            (Returns(t) /\ ret'[t].call.op = "StoreOrUpdateServerInfo") =>
               /\ InvalidInfo(ret'[t].call.val) =>
                     /\ ret'[t].err \in {"invalid port", "empty user"}
                     /\ pc[t] = "idle"
                     /\ serverInfo' = serverInfo
                     /\ dbServer' = dbServer
               /\ ~InvalidInfo(ret'[t].call.val) =>
                     ret'[t].err \notin {"invalid port", "empty user"}
       /\ (Constructs /\ tm' = "ready" /\ serverInfoKey \in DOMAIN dbServer) =>
              serverInfo' = DecodeServerInfo(dbServer[serverInfoKey])]_vars

C16_Witness ==
    /\ ret[1].call.op = "StoreOrUpdateServerInfo" /\ ret[1].err = "invalid port"
    /\ ret[1].call.val.Port = 70000
    /\ GetServerInfo[2] = "" /\ GetServerInfo[1].Port = 65535
    /\ serverInfoKey \in DOMAIN dbServer
    /\ DecodeServerInfo(dbServer[serverInfoKey]) = GetServerInfo[1]

\* C17: when a session stored attributes and server info (each call
\* returned nil) and ended without Finish with no call cut short, the next
\* constructor run on the file (its I/O succeeding) returns a manager whose
\* Attributes registry holds exactly the keys stored, each with the value
\* stored, and whose GetServerInfo() returns the info the bucket holds.
C17_RecoveryAttrsServer ==
    [][(/\ Constructs /\ lockFile /\ clean
        /\ storedAttrs # EmptyMap
        /\ serverInfoKey \in DOMAIN dbServer
        /\ ret'[1].err # "io")
          => /\ tm' = "ready"
             /\ DOMAIN memAttrs' = DOMAIN storedAttrs
             /\ \A k \in DOMAIN storedAttrs : memAttrs'[k].v = storedAttrs[k].v
             /\ serverInfo' = DecodeServerInfo(dbServer[serverInfoKey])]_vars

\* C18: an UpdateStatus, Start, SetError or SetSuccess on a key the Files
\* map does not hold returns the not-found error, and neither the map nor
\* the bucket changes.
C18_UpdateStatusAbsentKey ==
    [][\A t \in Threads :
          (/\ Returns(t)
           /\ ret'[t].call.op \in {"UpdateStatus", "Start", "SetError", "SetSuccess"}
           /\ ret'[t].call.key \notin DOMAIN memFiles)
              => /\ ret'[t].err = "not found in map"
                 /\ memFiles' = memFiles
                 /\ dbFiles' = dbFiles]_vars

C18_Witness ==
    /\ ret[1].call.op = "SetSuccess" /\ ret[1].err = "not found in map"
    /\ ret[1].call.key = "b"
    /\ "a" \in DOMAIN memFiles /\ "b" \notin DOMAIN memFiles
    /\ "b" \notin DOMAIN dbFiles

\* C19: GetSlice returns an error whenever the registry's in-memory map is
\* empty and otherwise a snapshot with one element per in-memory entry, for
\* the Files and the Attributes registry alike; Operate on an empty Files
\* registry returns that error.
C19_GetSliceEmpty ==
    [][Returns(1) =>
        /\ (ret'[1].call.op = "GetSlice" /\ ret'[1].call.reg = "Files")
             => IF memFiles = EmptyMap
                THEN ret'[1].err = "no files found"
                ELSE /\ ret'[1].err = ""
                     /\ Len_(ret'[1].call.out) = Cardinality(DOMAIN memFiles)
        /\ (ret'[1].call.op = "GetSlice" /\ ret'[1].call.reg = "Attributes")
             => IF memAttrs = EmptyMap
                THEN ret'[1].err # ""
                ELSE /\ ret'[1].err = ""
                     /\ Len_(ret'[1].call.out) = Cardinality(DOMAIN memAttrs)
        /\ (ret'[1].call.op = "Operate" /\ ret'[1].call.snap = EmptyMap
               /\ ret'[1].err \notin IOErrs)
             => ret'[1].err = "no files found"]_vars

\* C20: on a constructed manager with no call in progress, GetServerInfo
\* returns the not-set error if and only if no server info was ever stored
\* successfully in the lock file, in this session or in a recovered one
\* (compared with the Server bucket while the lock file has not been removed
\* by Finish); and a manager that holds server info keeps holding it until
\* the process ends or the constructor runs again.
C20_ServerInfoNotSet ==
    /\ []((tm \in {"ready", "closed"} /\ ~finished /\ AllIdle)
            => (GetServerInfo[2] = "ErrServerInfoNotSet"
                  <=> serverInfoKey \notin DOMAIN dbServer))
    /\ [][(GetServerInfo[2] = "" /\ ~Constructs /\ tm' \in {"ready", "closed"})
            => GetServerInfo[2]' = ""]_vars

C20_Witness ==
    /\ tm = "ready" /\ preexisting
    /\ ret[1].call.op = "NewTransferManager" /\ ret[1].err = ""
    /\ GetServerInfo[2] = ""
    /\ GetServerInfo[1] = DecodeServerInfo(dbServer[serverInfoKey])

\* The status of the record the Files bucket holds under k.
DurableStatus(k) == DecodeMetadata(dbFiles[k]).Status

\* C21: within Operate, transfer runs for a record only when the bucket holds
\* that record with Status InProgress; a terminal status is committed for a
\* key only after transfer returned for it; a process that dies while
\* transfer runs for key k leaves the bucket with k InProgress, and the
\* constructor that then recovers the lock file loads the bucket as it is.
C21_DurableInProgress ==
    /\ [](pc[1] = "op_transfer"
            => /\ frame[1].key \in DOMAIN dbFiles
               /\ DurableStatus(frame[1].key) = StatusInProgress)
    /\ [][
          /\ (frame[1].call.op = "Operate" /\ dbFiles' # dbFiles)
               => \A k \in DOMAIN dbFiles' :
                    ((/\ DecodeMetadata(dbFiles'[k]).Status \in {StatusCompleted, StatusFailed}
                      /\ (k \notin DOMAIN dbFiles \/ dbFiles'[k] # dbFiles[k]))
                       => (/\ pc[1] = "op_end_tx"
                           /\ frame[1].calls # <<>>
                           /\ frame[1].calls[Len(frame[1].calls)].key = k))
          /\ (pc[1] = "op_transfer" /\ tm' = "none")
               => /\ frame[1].key \in DOMAIN dbFiles'
                  /\ DecodeMetadata(dbFiles'[frame[1].key]).Status = StatusInProgress
          /\ (Constructs /\ lockFile /\ ret'[1].err = "")
               => /\ DOMAIN memFiles' = DOMAIN dbFiles
                  /\ \A k \in DOMAIN dbFiles : memFiles'[k].Status = DurableStatus(k)
       ]_vars

\* The lock file recovered after an Operate that completed "a" and was cut
\* short during the transfer of "b".
C21_Witness ==
    /\ tm = "ready" /\ preexisting
    /\ ret[1].call.op = "NewTransferManager" /\ ret[1].err = ""
    /\ DOMAIN memFiles = {"a", "b"}
    /\ memFiles["a"].Status = StatusCompleted
    /\ memFiles["b"].Status = StatusInProgress

\* C22: an Operate or a TransferManager.sync in whose sweep the re-write of a
\* key failed (syncFile or syncAttribute returned an error) does not return nil.
C22_SyncPropagatesErrors ==
    [][(Returns(1) /\ ret'[1].call.op \in {"Operate", "sync"} /\ ret'[1].err = "")
         => /\ ret'[1].call.sync_err = ""
            /\ ret'[1].call.op = "sync" => ret'[1].call.att_err = ""]_vars

\* The steps of a sync() sweep and of the db.Sync calls that end it.
SyncPcs == {"sync_range", "sync_file", "sync_tx", "sync_store", "sync_db",
            "att_sync_range", "att_sync_attr", "att_sync_tx", "att_sync_store",
            "att_sync_db", "tm_sync_db"}

\* Memory and the buckets agree: a recovery of the lock file would load
\* exactly the two in-memory maps.
Agree ==
    /\ memFiles = LoadAllFiles
    /\ LoadAllAttrsOk
    /\ memAttrs = LoadAllAttrs

\* C23: a step of a sync() sweep that begins with memory and the buckets in
\* agreement leaves them in agreement and leaves both in-memory maps as they
\* were (so a crash at any point of the sweep recovers the pre-sync registry,
\* and a second sync() finds what the first one found).
C23_SyncSafeIdempotent ==
    [][(pc[1] \in SyncPcs /\ tm' = tm /\ Agree)
         => /\ Agree'
            /\ memFiles' = memFiles
            /\ memAttrs' = memAttrs]_vars

\* The calls that write: every method but the GetSlice of the two registries.
Mutating == {"StoreOrUpdate", "Delete", "UpdateStatus", "Start", "SetError", "SetSuccess",
             "Operate", "sync", "StoreOrUpdateServerInfo", "Close", "Finish"}

\* C24: once Close or Finish has closed the database, no step of a call
\* changes the in-memory registries, tm.serverInfo or the lock file, and
\* every mutating call returns an error.
C24_FailFastAfterClose ==
    [][(tm = "closed" /\ tm' = "closed")
         => /\ memFiles' = memFiles
            /\ memAttrs' = memAttrs
            /\ serverInfo' = serverInfo
            /\ disk' = disk
            /\ (Returns(1) /\ ret'[1].call.op \in Mutating) => ret'[1].err # ""]_vars

\* An Operate over a registry holding a record, and returned on a closed manager.
C24_Witness ==
    /\ tm = "closed" /\ lockFile
    /\ memFiles # EmptyMap
    /\ ret[1].call.op = "Operate"
    /\ ret[1].err = "ErrDatabaseNotOpen"
    /\ ret[1].call.snap # EmptyMap

C26_ConstructionAllOrNothing ==
    /\ [](tm = "ready" => (handle /\ lockFile))
    /\ [](tm = "failed" => ~handle)
    /\ [][Constructs
            => /\ (ret'[1].err = "" <=> tm' = "ready")
               /\ tm' = "failed"
                    => (memFiles' = EmptyMap /\ memAttrs' = EmptyMap
                        /\ serverInfo' = NoServerInfo)
               /\ (tm' = "ready" /\ lockFile)
                    => (memFiles' = LoadAllFiles /\ memAttrs' = LoadAllAttrs
                        /\ serverInfo' = LoadServerInfo)]_vars

\* The value an attribute payload carries: its dynamic type and content, in
\* memory (a pointer to an interface counts as what it points to) and in
\* the bucket.
PayloadValue(data) ==
    [type |-> IF data.kind = "ptrany" THEN "string" ELSE data.kind, v |-> data.v]
StoredValue(v) == [type |-> v.concrete, v |-> v.v]

\* C27: with one goroutine, whenever no call is in progress on a constructed
\* manager whose lock file has not been removed (after the constructor and
\* after every call, failed or not), each in-memory map has exactly the keys
\* of its bucket and under each key the value the bucket holds, and every
\* record of the Files map is under its SourcePath.
C27_AgreementAtQuiescence ==
    (tm \in {"ready", "closed"} /\ ~finished /\ pc[1] = "idle")
        => /\ DOMAIN memFiles = DOMAIN dbFiles
           /\ \A k \in DOMAIN memFiles :
                /\ memFiles[k] = DecodeMetadata(dbFiles[k])
                /\ memFiles[k].SourcePath = k
           /\ DOMAIN memAttrs = DOMAIN dbAttrs
           /\ \A k \in DOMAIN memAttrs :
                PayloadValue(memAttrs[k]) = StoredValue(dbAttrs[k])

\* After an Operate that failed on an I/O error, with a record and an
\* attribute in the registries.
C27_Witness ==
    /\ tm = "ready" /\ pc[1] = "idle"
    /\ ret[1].call.op = "Operate" /\ ret[1].err = "io"
    /\ ret[1].call.calls # <<>>
    /\ memFiles # EmptyMap /\ memAttrs # EmptyMap

====
